---- MODULE Spec2Model ----
(***************************************************************************)
(* Model of warrantyCrew.                                                  *)
(*                                                                         *)
(* The knowledge-base index (src/simple_kb.py): the SimpleKB object        *)
(* (self.vectors, self.meta), the three persisted artifacts under          *)
(* INDEX_DIR (kb_vectors.npy, kb_meta.json, docs_digest.txt), the document *)
(* root, and the operations __init__, _load, reindex, _save, _embed_texts  *)
(* and search, each split at the statements at which another thread or a   *)
(* process stop can observe the state (Spec; SpecDisk adds a failing disk, *)
(* SpecProvider a provider that miscounts).                                *)
(*                                                                         *)
(* The chunker _chunk_text over any token sequence and any window and      *)
(* overlap sizes (SpecChunk).                                              *)
(*                                                                         *)
(* The API (src/api/app.py, src/orchestrator.py): POST /chat and           *)
(* POST /chat/confirm over the PENDING store and HubSpot (SpecChat).       *)
(***************************************************************************)
EXTENDS Integers, Sequences, FiniteSets, TLC

\* ------------------------------------------------------------------ bounds
\* Number of distinct chunk texts; the document root yields any subset of them.
NumTexts == 2
\* Largest k passed to search().
MaxK == 1

\* Longest token sequence given to _chunk_text, number of distinct token ids,
\* largest CHUNK_TOKENS and largest CHUNK_OVERLAP_TOKENS.
MaxTokens == 5
NumTokenIds == 2
MaxChunkTokens == 4
MaxChunkOverlap == 4

\* Number of /chat calls (interaction ids issued) in a run.
MaxInteractions == 2

\* Files under DOCS_DIR, and the range of a file's size and modification
\* time.
MaxFiles == 2
MaxStat == 2

\* orchestrator.py:4, CONFIDENCE_GOOD = 0.75; confidences count in hundredths.
CONFIDENCE_GOOD == 75

\* _embed_texts, B = 64 (simple_kb.py:130), scaled down so that an embedding
\* pass over NumTexts texts takes more than one batch.
B == 1

\* ------------------------------------------------------------------ values
\* An optional array or list, in memory or in a file, is a record of its kind
\* and its rows.
None == [kind |-> "None", rows |-> <<>>]            \* Python's None
Missing == [kind |-> "Missing", rows |-> <<>>]      \* the file does not exist
Truncated == [kind |-> "Truncated", rows |-> <<>>]  \* opened for writing, unwritten
Array(rows) == [kind |-> "ndarray", rows |-> rows]  \* an (N, d) float32 matrix
List(rows) == [kind |-> "list", rows |-> rows]      \* a Python / JSON list
NoCall == [kind |-> "NoCall", rows |-> <<>>]        \* no value returned
NoDigest == <<>>     \* docs_digest.txt absent: _load_saved_digest gives ""
NoPage == 0          \* KBChunk.page = None (pages count from 1)

Texts == 1..NumTexts
Ks == 0..MaxK

Min(a, b) == IF a < b THEN a ELSE b

Max(a, b) == IF a > b THEN a ELSE b

\* The token sequences enc.encode can give _chunk_text.
TokenSeqs == UNION {[1..n -> 1..NumTokenIds] : n \in 0..MaxTokens}

\* The texts of S in traversal order.
RECURSIVE Ascending(_)
Ascending(S) ==
    IF S = {} THEN <<>>
    ELSE LET x == CHOOSE y \in S : \A z \in S : y <= z
         IN <<x>> \o Ascending(S \ {x})

\* The document roots of the model: the ordered chunk texts the root yields.
DocRoots == {Ascending(S) : S \in SUBSET Texts}

\* ------------------------------------------------------- pure functions
\* np.array(e.embedding, dtype = EMB_DTYPE) / .astype(EMB_DTYPE): the cast to
\* float32 drops the low-order part of a value; float32 values are unchanged.
ToFloat32(x) == x - (x % 2)

AsType(v) == [i \in DOMAIN v |-> ToFloat32(v[i])]

AsTypeMatrix(m) == Array([i \in DOMAIN m.rows |-> AsType(m.rows[i])])

\* The embedding provider's vector (resp.data[i].embedding) for a text.
ProviderEmbedding(t) ==
    IF t % 2 = 1 THEN <<2 * t + 1, 1>> ELSE <<1, 2 * t + 1>>

\* _load_all_chunks: one KBChunk per chunk text of the root, in traversal
\* order; the sha is the digest of path + text.
KBChunk(t) ==
    [text |-> t, source |-> "doc", page |-> NoPage, sha |-> <<"sha1", "doc", t>>]

LoadAllChunks(root) == [i \in DOMAIN root |-> KBChunk(root[i])]

\* reindex, lines 99-104: the metadata record of a chunk.
MetaRecord(c) ==
    [source |-> c.source, page |-> c.page, sha |-> c.sha, text |-> c.text]

MetaOf(chunks) == [i \in DOMAIN chunks |-> MetaRecord(chunks[i])]

\* One response of the provider to a batch, as line 134 converts it.
EmbedBatch(batch) ==
    [i \in DOMAIN batch |-> AsType(ProviderEmbedding(batch[i].text))]

\* The complete index (matrix, metadata) a build over a root produces.
MatrixOf(root) ==
    IF root = <<>> THEN None ELSE Array(EmbedBatch(LoadAllChunks(root)))

IsMatrix(f) == f.kind = "ndarray"

\* np.vstack of a list of (n_i, d) arrays: their rows, in order.
RECURSIVE VStack(_)
VStack(arrays) ==
    IF arrays = <<>> THEN <<>> ELSE Head(arrays) \o VStack(Tail(arrays))

\* ------------------------------------------------------------------- state
VARIABLES
    docs,       \* DOCS_DIR: the chunk texts the document root yields
    vectors,    \* self.vectors: None or the (N, d) matrix
    meta,       \* self.meta
    fVec,       \* kb_vectors.npy
    fMeta,      \* kb_meta.json
    fDigest,    \* docs_digest.txt
    pc,         \* position of the thread running _load / reindex / _save
    op,         \* the operation that thread was called for
    chunks,     \* reindex: local chunks
    out,        \* _embed_texts: out, one array per batch embedded so far
    pre,        \* the index and the artifacts when the operation was called
    ret,        \* outcome of the operation that has just ended
    sres,       \* the search() call that has just returned: arguments, value
    CHUNK_TOKENS,           \* line 14
    CHUNK_OVERLAP_TOKENS,   \* line 15
    toks,       \* _chunk_text: toks, the encoded text
    offset,     \* _chunk_text: i, the loop variable of line 148
    textChunks, \* _chunk_text: chunks, one entry per emitted window
    cpc,        \* position of the thread running _chunk_text
    PENDING,    \* app.py line 24: interaction id -> stored help result
    issued,     \* number of interaction ids /chat has drawn (uuid4, line 204)
    tickets,    \* HubSpot: the tickets created, each with its interaction
    last,       \* the request handled last: what its handler computed and
                \* returned (or that it raised)
    confirmed,  \* the interaction ids for which /chat/confirm found an entry
    tree,       \* the files under DOCS_DIR, each with its extension, whether
                \* it can be read, its size and its modification time
    outside,    \* the state of the files outside DOCS_DIR
    filenames,  \* _load_all_chunks: the files in the order os.walk gives them
    position,   \* _load_all_chunks: how many of them the loop has handled
    allChunks,  \* _load_all_chunks: local chunks
    lpc,        \* position of the thread running _load_all_chunks
    scans,      \* the last two scans of the tree: order, chunks, digest
    digests,    \* the outcomes of the last two _docs_digest calls
    gap,        \* what changed between those two calls
    since       \* what has changed since the last _docs_digest call

\* The variables of _chunk_text.
chunker == <<CHUNK_TOKENS, CHUNK_OVERLAP_TOKENS, toks, offset, textChunks, cpc>>

\* The variables of the index and its operations.
kb == <<docs, vectors, meta, fVec, fMeta, fDigest, pc, op, chunks, out,
        pre, ret, sres>>

\* The variables of the API (src/api/app.py) and of HubSpot.
web == <<PENDING, issued, tickets, last, confirmed>>

\* The variables of the document tree, of _load_all_chunks and _docs_digest.
docsDir == <<tree, outside, filenames, position, allChunks, lpc, scans,
             digests, gap, since>>

vars == <<kb, chunker, web, docsDir>>

Snapshot ==
    [vectors |-> vectors, meta |-> meta, fVec |-> fVec, fMeta |-> fMeta,
     fDigest |-> fDigest, docs |-> docs]

NoRet == [op |-> "none", status |-> "none", value |-> <<>>, n |-> 0, rows |-> 0]

NoPre ==
    [vectors |-> None, meta |-> <<>>, fVec |-> Missing, fMeta |-> Missing,
     fDigest |-> NoDigest, docs |-> <<>>]

NoSearch == [q |-> 0, k |-> 0, value |-> NoCall]

\* pre and ret describe the call in progress or just ended, sres the search
\* that has just returned: the next call or environment step forgets them.
Forget ==
    /\ ret' = NoRet
    /\ pre' = NoPre
    /\ sres' = NoSearch

\* The digest of a document root (sha1 taken as injective).
DigestOf(root) == <<root>>

\* __init__, lines 32-35: a fresh object. INDEX_DIR outlives the process: it
\* is empty, or it holds the artifacts of a complete index persisted earlier
\* for some document root (kb_meta.json = [] and no kb_vectors.npy for an
\* empty one), with or without its digest.
InitKB ==
    /\ docs \in DocRoots
    /\ vectors = None
    /\ meta = <<>>
    /\ \/ /\ fVec = Missing
          /\ fMeta = Missing
          /\ fDigest = NoDigest
       \/ \E d \in DocRoots :
            /\ fVec = IF d = <<>> THEN Missing ELSE MatrixOf(d)
            /\ fMeta = List(MetaOf(LoadAllChunks(d)))
            /\ fDigest \in {NoDigest, DigestOf(d)}
    /\ pc = "idle"
    /\ op = "none"
    /\ chunks = <<>>
    /\ out = <<>>
    /\ pre = NoPre
    /\ ret = NoRet
    /\ sres = NoSearch

\* No _chunk_text call is in progress (the chunk texts of the document root
\* are given by docs).
ChunkerIdle ==
    /\ CHUNK_TOKENS = 1
    /\ CHUNK_OVERLAP_TOKENS = 0
    /\ toks = <<>>
    /\ offset = 0
    /\ textChunks = <<>>
    /\ cpc = "idle"

\* A confidence or a raw "confidence" entry: a float, in hundredths, or one
\* of the other values the entry can hold.
Float(n) == [kind |-> "float", n |-> n]
NaN == [kind |-> "nan", n |-> 0]              \* float("nan")
Absent == [kind |-> "absent", n |-> 0]        \* the key is not in the dict
NoneValue == [kind |-> "None", n |-> 0]       \* the key holds None
Text == [kind |-> "str", n |-> 0]             \* a string float() cannot parse

NoTicket == 0        \* ticket_id = None (tickets count from 1)
NoIid == 0           \* an interaction id that names no stored interaction
NoResult == [kind |-> "none", resolved |-> FALSE, confidence |-> Float(0)]

NoLast ==
    [endpoint |-> "none", status |-> 0, iid |-> NoIid, result |-> NoResult,
     opened |-> FALSE, need_confirmation |-> FALSE, ticket_id |-> NoTicket,
     interaction_id |-> NoIid]

\* app.py lines 24 and 77: a started server, nothing pending, no ticket.
WebIdle ==
    /\ PENDING = [i \in 1..MaxInteractions |-> NoResult]
    /\ issued = 0
    /\ tickets = <<>>
    /\ last = NoLast
    /\ confirmed = {}

\* No file-level scan or digest is in progress (the chunk texts of the
\* document root are given by docs).
DocsDirIdle ==
    /\ tree = <<>>
    /\ outside = 0
    /\ filenames = <<>>
    /\ position = 0
    /\ allChunks = <<>>
    /\ lpc = "idle"
    /\ scans = <<>>
    /\ digests = <<>>
    /\ gap = "none"
    /\ since = "none"

Init == InitKB /\ ChunkerIdle /\ WebIdle /\ DocsDirIdle

\* A call starts: the state at the call is remembered.
Call(name, first) ==
    /\ pc = "idle"
    /\ pc' = first
    /\ op' = name
    /\ pre' = Snapshot
    /\ ret' = NoRet
    /\ sres' = NoSearch
    /\ UNCHANGED <<chunker, web, docsDir>>

\* The operation moves on to its next statement.
Step(next) ==
    /\ pc' = next
    /\ sres' = NoSearch
    /\ UNCHANGED <<op, pre, ret>>
    /\ UNCHANGED <<chunker, web, docsDir>>

\* The operation ends: locals are dropped and the outcome is recorded.
Ends(status, value) ==
    /\ pc' = "idle"
    /\ op' = "none"
    /\ chunks' = <<>>
    /\ out' = <<>>
    /\ ret' = [op |-> op, status |-> status, value |-> value,
               n |-> Len(chunks), rows |-> Len(VStack(out))]
    /\ sres' = NoSearch
    /\ UNCHANGED pre
    /\ UNCHANGED <<chunker, web, docsDir>>

\* ------------------------------------------------------------------- _load
\* What _load leaves in (self.vectors, self.meta) for given artifacts: both
\* files are read; any exception resets the store (lines 124-125).
LoadResult(fv, fm) ==
    IF IsMatrix(fv) /\ fm.kind = "list"
    THEN [vectors |-> AsTypeMatrix(fv), meta |-> fm.rows]
    ELSE [vectors |-> None, meta |-> <<>>]

LoadCall ==
    /\ Call("load", "load_vec")
    /\ UNCHANGED <<docs, vectors, meta, fVec, fMeta, fDigest, chunks, out>>

\* line 121: np.load(...).astype(EMB_DTYPE); a missing or unreadable file
\* raises and lines 124-125 reset the store.
LoadVectors ==
    /\ pc = "load_vec"
    /\ IF IsMatrix(fVec)
       THEN /\ vectors' = AsTypeMatrix(fVec)
            /\ Step("load_meta")
            /\ UNCHANGED <<meta, chunks, out>>
       ELSE /\ vectors' = None
            /\ meta' = <<>>
            /\ Ends("ok", <<>>)
    /\ UNCHANGED <<docs, fVec, fMeta, fDigest>>

\* lines 122-125: json.load of kb_meta.json; the list is stored as read, with
\* no check against the matrix.
LoadMeta ==
    /\ pc = "load_meta"
    /\ IF fMeta.kind = "list"
       THEN /\ meta' = fMeta.rows
            /\ UNCHANGED vectors
       ELSE /\ vectors' = None
            /\ meta' = <<>>
    /\ Ends("ok", <<>>)
    /\ UNCHANGED <<docs, fVec, fMeta, fDigest>>

\* ------------------------------------------------------------------- _save
SaveCall ==
    /\ Call("save", "save_vec")
    /\ UNCHANGED <<docs, vectors, meta, fVec, fMeta, fDigest, chunks, out>>

\* lines 110-114: np.save opens kb_vectors.npy itself for writing, which
\* truncates it; os.remove when there is no matrix.
SaveOpenVectors ==
    /\ pc = "save_vec"
    /\ IF vectors # None
       THEN /\ fVec' = Truncated
            /\ Step("save_vec_write")
       ELSE /\ fVec' = Missing
            /\ Step("save_meta")
    /\ UNCHANGED <<docs, vectors, meta, fMeta, fDigest, chunks, out>>

\* line 111, np.save completes.
SaveWriteVectors ==
    /\ pc = "save_vec_write"
    /\ fVec' = vectors
    /\ Step("save_meta")
    /\ UNCHANGED <<docs, vectors, meta, fMeta, fDigest, chunks, out>>

\* lines 110-114 raise (np.save or os.remove: disk full, no permission): the
\* exception leaves _save, and reindex when reindex called it; a file np.save
\* had opened stays as far as it was written.
SaveVectorsRaises ==
    /\ pc \in {"save_vec", "save_vec_write"}
    /\ Ends("OSError", <<>>)
    /\ UNCHANGED <<docs, vectors, meta, fVec, fMeta, fDigest>>

\* line 116: open(self.meta_fp, "w", encodings = "utf-8") raises TypeError
\* before the file is opened; line 117 and the caller's return (lines 94,
\* 107) are never reached.
SaveMeta ==
    /\ pc = "save_meta"
    /\ Ends("TypeError", <<>>)
    /\ UNCHANGED <<docs, vectors, meta, fVec, fMeta, fDigest>>

\* ----------------------------------------------------------------- reindex
\* line 89 and the test of line 90.
ReindexCall ==
    /\ Call("reindex", IF LoadAllChunks(docs) = <<>> THEN "clear_vec" ELSE "embed")
    /\ chunks' = LoadAllChunks(docs)
    /\ UNCHANGED <<docs, vectors, meta, fVec, fMeta, fDigest, out>>

\* line 91
ReindexClearVectors ==
    /\ pc = "clear_vec"
    /\ vectors' = None
    /\ Step("clear_meta")
    /\ UNCHANGED <<docs, meta, fVec, fMeta, fDigest, chunks, out>>

\* line 92, then the call of line 93
ReindexClearMeta ==
    /\ pc = "clear_meta"
    /\ meta' = <<>>
    /\ Step("save_vec")
    /\ UNCHANGED <<docs, vectors, fVec, fMeta, fDigest, chunks, out>>

\* _embed_texts, line 132: the batch of the loop's next round, texts[i : i + B]
\* with i = B * (rounds done).
Batch == SubSeq(chunks, B * Len(out) + 1, Min(B * Len(out) + B, Len(chunks)))

\* The position after a round of the loop of line 131: another round, or the
\* return of line 136 and line 98.
AfterBatch == IF B * (Len(out) + 1) >= Len(chunks) THEN "set_vec" ELSE "embed"

\* _embed_texts, lines 131-135: the next batch of B texts is embedded, the
\* provider answering with one vector per text, in the order of the texts.
EmbedTextsBatch ==
    /\ pc = "embed"
    /\ out' = Append(out, EmbedBatch(Batch))
    /\ Step(AfterBatch)
    /\ UNCHANGED <<docs, vectors, meta, fVec, fMeta, fDigest, chunks>>

\* A variant of EmbedTextsRaises in which reindex has dropped the old index
\* before the embedding pass.
EmbedTextsRaisesCleared ==
    /\ pc = "embed"
    /\ vectors' = None
    /\ meta' = <<>>
    /\ Ends("EmbeddingError", <<>>)
    /\ UNCHANGED <<docs, fVec, fMeta, fDigest>>

\* line 133 raises (provider error or timeout): the loop has no try and no
\* second call, the exception leaves _embed_texts and reindex. The value of
\* the outcome is the number of calls of line 133 made for the batch: one.
EmbedTextsRaises ==
    /\ pc = "embed"
    /\ Ends("EmbeddingError", <<1>>)
    /\ UNCHANGED <<docs, vectors, meta, fVec, fMeta, fDigest>>

\* The responses of a provider that miscounts: the vectors of the batch
\* without the last one, or with the last one twice.
Miscounted(batch) ==
    {SubSeq(EmbedBatch(batch), 1, Len(batch) - 1),
     Append(EmbedBatch(batch), EmbedBatch(batch)[Len(batch)])}

\* _embed_texts, lines 133-135, when resp.data holds fewer or more vectors
\* than the batch has texts: line 134 converts whatever resp.data holds and
\* line 135 appends it, no count is compared; only an empty resp.data fails,
\* np.vstack([]) raising ValueError.
EmbedTextsMiscounted ==
    /\ pc = "embed"
    /\ \E resp \in Miscounted(Batch) :
         IF resp = <<>>
         THEN Ends("ValueError", <<>>)
         ELSE /\ out' = Append(out, resp)
              /\ Step(AfterBatch)
              /\ UNCHANGED chunks
    /\ UNCHANGED <<docs, vectors, meta, fVec, fMeta, fDigest>>

\* line 136 (np.vstack(out)) and line 98
ReindexSetVectors ==
    /\ pc = "set_vec"
    /\ vectors' = AsTypeMatrix(Array(VStack(out)))
    /\ Step("set_meta")
    /\ UNCHANGED <<docs, meta, fVec, fMeta, fDigest, chunks, out>>

\* lines 99-104, then the call of line 106
ReindexSetMeta ==
    /\ pc = "set_meta"
    /\ meta' = MetaOf(chunks)
    /\ Step("save_vec")
    /\ UNCHANGED <<docs, vectors, fVec, fMeta, fDigest, chunks, out>>

\* ------------------------------------------------------------------ search
\* _cosine_sim, lines 139-141: one similarity per row, as the fraction
\* <<numerator, denominator>>. In float32 the 1e-8 of the denominator is
\* absorbed unless a norm is zero, and then the similarity is 0.
Dot(a, b) == a[1] * b[1] + a[2] * b[2]

Norm(a) == CHOOSE r \in 0..Dot(a, a) : r * r <= Dot(a, a) /\ Dot(a, a) < (r + 1) * (r + 1)

CosineSim(A, b) ==
    [i \in DOMAIN A |->
        IF Norm(A[i]) * Norm(b) = 0 THEN <<0, 1>>
        ELSE <<Dot(A[i], b), Norm(A[i]) * Norm(b)>>]

\* s < t for two similarities (denominators are positive).
SimLess(s, t) == s[1] * t[2] < t[1] * s[2]

\* A variant of SearchResult whose emptiness test joins its two conditions
\* with "and".
SearchResultBothEmpty(v, m, q, k) ==
    IF v = None /\ Len(m) = 0 THEN List(<<>>) ELSE None

\* lines 69-84: the body after the return of line 72 is indented under the
\* if, so a non-empty index falls off the end of the function: None.
SearchResult(v, m, q, k) ==
    IF v = None \/ Len(m) = 0 THEN List(<<>>) ELSE None

\* A variant of Search that first loads the persisted index into an empty
\* store.
SearchLoadsIndex ==
    /\ \E q \in Texts, k \in Ks :
         LET ix == IF vectors = None THEN LoadResult(fVec, fMeta)
                   ELSE [vectors |-> vectors, meta |-> meta]
         IN /\ vectors' = ix.vectors
            /\ meta' = ix.meta
            /\ sres' = [q |-> q, k |-> k,
                        value |-> SearchResult(ix.vectors, ix.meta, q, k)]
    /\ UNCHANGED <<docs, fVec, fMeta, fDigest, pc, op, chunks, out, pre, ret>>
    /\ UNCHANGED <<chunker, web, docsDir>>

\* search() runs in the caller's thread, at any point of a running operation.
Search ==
    /\ \E q \in Texts, k \in Ks :
         sres' = [q |-> q, k |-> k, value |-> SearchResult(vectors, meta, q, k)]
    /\ UNCHANGED <<docs, vectors, meta, fVec, fMeta, fDigest, pc, op, chunks,
                   out, pre, ret>>
    /\ UNCHANGED <<chunker, web, docsDir>>

\* ---------------------------------------------------------------- __init__
\* _docs_digest, lines 203-216, as lines 41-45 take it: os has no stats, so
\* line 210 raises AttributeError at the first file of the walk and current
\* is ""; only a tree without files reaches line 216. Every chunk text of a
\* root comes from a file.
DocsDigest(root) == IF root = <<>> THEN DigestOf(root) ELSE NoDigest

\* lines 29-35: SimpleKB() makes the object of the process anew; the state
\* remembered is the one the new object starts from.
ConstructCall ==
    /\ pc = "idle"
    /\ pc' = "init_load"
    /\ op' = "init"
    /\ vectors' = None
    /\ meta' = <<>>
    /\ pre' = [Snapshot EXCEPT !.vectors = None, !.meta = <<>>]
    /\ ret' = NoRet
    /\ sres' = NoSearch
    /\ UNCHANGED <<docs, fVec, fMeta, fDigest, chunks, out>>
    /\ UNCHANGED <<chunker, web, docsDir>>

\* line 37: self.load() raises AttributeError, the class defines _load and no
\* load; the exception leaves __init__ and lines 41-67 are never reached. The
\* value of the outcome lists the calls __init__ has made: none.
ConstructLoad ==
    /\ pc = "init_load"
    /\ Ends("AttributeError", <<>>)
    /\ UNCHANGED <<docs, vectors, meta, fVec, fMeta, fDigest>>

\* ------------------------------------------------------------- environment
\* The documents under DOCS_DIR change.
ChangeDocs ==
    /\ pc = "idle"
    /\ \E d \in DocRoots : d # docs /\ docs' = d
    /\ Forget
    /\ UNCHANGED <<vectors, meta, fVec, fMeta, fDigest, pc, op, chunks, out>>
    /\ UNCHANGED <<chunker, web, docsDir>>

\* The process stops inside an operation; the next process starts with a
\* fresh object (lines 32-33) over the same files.
ProcessStops ==
    /\ pc # "idle"
    /\ vectors' = None
    /\ meta' = <<>>
    /\ Ends("stopped", <<>>)
    /\ UNCHANGED <<docs, fVec, fMeta, fDigest>>

Next ==
    \/ LoadCall \/ LoadVectors \/ LoadMeta
    \/ SaveCall \/ SaveOpenVectors \/ SaveWriteVectors \/ SaveMeta
    \/ ReindexCall \/ ReindexClearVectors \/ ReindexClearMeta
    \/ EmbedTextsBatch \/ EmbedTextsRaises
    \/ ReindexSetVectors \/ ReindexSetMeta
    \/ ConstructCall \/ ConstructLoad
    \/ Search
    \/ ChangeDocs
    \/ ProcessStops

Spec == Init /\ [][Next]_vars

\* The same program on a disk that can fail while kb_vectors.npy is written
\* or removed.
NextDisk == Next \/ SaveVectorsRaises

SpecDisk == Init /\ [][NextDisk]_vars

\* The same program with an embedding provider whose responses may hold a
\* number of vectors other than the number of texts sent.
NextProvider == Next \/ EmbedTextsMiscounted

SpecProvider == Init /\ [][NextProvider]_vars

\* ------------------------------------------------------------- _chunk_text
\* A variant of ChunkStep that leaves the overlap out of the stride.
ChunkStepNoOverlap(t, o) == t

\* A variant of ChunkStep that adds the overlap to the stride.
ChunkStepSum(t, o) == t + o

\* line 147: step = max(1, CHUNK_TOKENS - CHUNK_OVERLAP_TOKENS)
ChunkStep(t, o) == Max(1, t - o)

\* A variant of Window whose slice starts one token late.
WindowFromNext(ts, i, t) == SubSeq(ts, i + 2, Min(i + t, Len(ts)))

\* line 149: toks[i : i + CHUNK_TOKENS], the slice clipped at the end of toks.
Window(ts, i, t) == SubSeq(ts, i + 1, Min(i + t, Len(ts)))

\* The index at rest while _chunk_text runs: a fresh object, no document, an
\* empty INDEX_DIR.
KBAtRest ==
    /\ docs = <<>>
    /\ vectors = None
    /\ meta = <<>>
    /\ fVec = Missing
    /\ fMeta = Missing
    /\ fDigest = NoDigest
    /\ pc = "idle"
    /\ op = "none"
    /\ chunks = <<>>
    /\ out = <<>>
    /\ pre = NoPre
    /\ ret = NoRet
    /\ sres = NoSearch

\* _chunk_text is about to be called: the module's two parameters (lines
\* 14-15) and the encoded text (line 145) are any within the bounds.
InitChunk ==
    /\ KBAtRest
    /\ CHUNK_TOKENS \in 1..MaxChunkTokens
    /\ CHUNK_OVERLAP_TOKENS \in 0..MaxChunkOverlap
    /\ toks \in TokenSeqs
    /\ offset = 0
    /\ textChunks = <<>>
    /\ cpc = "idle"
    /\ WebIdle
    /\ DocsDirIdle

\* lines 145-148: the loop starts at i = 0 with no chunk.
ChunkTextCall ==
    /\ cpc = "idle"
    /\ cpc' = "loop"
    /\ offset' = 0
    /\ textChunks' = <<>>
    /\ UNCHANGED <<CHUNK_TOKENS, CHUNK_OVERLAP_TOKENS, toks>>
    /\ UNCHANGED <<kb, web, docsDir>>

\* lines 148-151, one round of the loop: range(0, len(toks), step) gives an
\* i below len(toks), so the window is never empty and line 150 never
\* breaks. The entry keeps the window that line 151 decodes, and its offset.
ChunkTextWindow ==
    /\ cpc = "loop"
    /\ offset < Len(toks)
    /\ textChunks' = Append(textChunks,
            [start |-> offset, window |-> Window(toks, offset, CHUNK_TOKENS)])
    /\ offset' = offset + ChunkStep(CHUNK_TOKENS, CHUNK_OVERLAP_TOKENS)
    /\ UNCHANGED <<CHUNK_TOKENS, CHUNK_OVERLAP_TOKENS, toks, cpc>>
    /\ UNCHANGED <<kb, web, docsDir>>

\* line 152: the range is exhausted and chunks is returned.
ChunkTextReturn ==
    /\ cpc = "loop"
    /\ offset >= Len(toks)
    /\ cpc' = "done"
    /\ UNCHANGED <<CHUNK_TOKENS, CHUNK_OVERLAP_TOKENS, toks, offset, textChunks>>
    /\ UNCHANGED <<kb, web, docsDir>>

NextChunk == ChunkTextCall \/ ChunkTextWindow \/ ChunkTextReturn

SpecChunk == InitChunk /\ [][NextChunk]_vars

\* ------------------------------------------------- /chat and /chat/confirm
\* What self_help.run can return (orchestrator.py lines 43-49): a value that
\* is no dict (a string, a CrewOutput), or a dict with or without "resolved"
\* and "confidence"; or it raises an exception that is no TypeError.
RawResolved == {"absent", "None", "True", "False"}

RawConfidences == {Absent, NoneValue, Text, NaN} \union {Float(n) : n \in {0, 74, 75, 100}}

NotADict == [kind |-> "other", resolved |-> "absent", confidence |-> Absent]

Dict(r, c) == [kind |-> "dict", resolved |-> r, confidence |-> c]

Raised == [kind |-> "raise", resolved |-> "absent", confidence |-> Absent]

AgentOutcomes ==
    {NotADict, Raised} \union {Dict(r, c) : r \in RawResolved, c \in RawConfidences}

\* normalize_help_result, line 20: float(base.get("confidence", 0.5) or 0.0).
\* The default is 0.5, None and 0 give 0.0, NaN is truthy and stays NaN.
ConfidenceOf(c) ==
    CASE c.kind = "absent" -> Float(50)
      [] c.kind = "None" -> Float(0)
      [] OTHER -> c

\* normalize_help_result, lines 6-31; float() of line 20 raises ValueError on
\* a string that is no number.
NormalizeHelpResult(raw) ==
    IF raw.kind = "dict"
    THEN IF raw.confidence.kind = "str"
         THEN [kind |-> "ValueError", resolved |-> FALSE, confidence |-> Float(0)]
         ELSE [kind |-> "result", resolved |-> raw.resolved = "True",
               confidence |-> ConfidenceOf(raw.confidence)]
    ELSE [kind |-> "result", resolved |-> FALSE, confidence |-> Float(50)]

\* _normalize_result, app.py lines 169-170 and 188-194, of a normalized help
\* result: float() of its float and bool() of its bool.
NormalizeResult(result) ==
    [kind |-> result.kind, resolved |-> result.resolved,
     confidence |-> result.confidence]

\* c >= g and c < g for a float c: every comparison with NaN is False.
GreaterEq(c, g) == c.kind = "float" /\ c.n >= g

Less(c, g) == c.kind = "float" /\ c.n < g

\* A variant of SolidAnswer that takes only a confidence above the threshold.
SolidAnswerAbove(result) ==
    result.resolved \/ (result.confidence.kind = "float" /\ result.confidence.n > CONFIDENCE_GOOD)

\* app.py line 232: result["resolved"] or result["confidence"] >= CONFIDENCE_GOOD
SolidAnswer(result) ==
    result.resolved \/ GreaterEq(result.confidence, CONFIDENCE_GOOD)

\* app.py lines 91-104: the answer to a request whose handler raised.
ServerError(endpoint, iid, result, opened) ==
    [endpoint |-> endpoint, status |-> 500, iid |-> iid, result |-> result,
     opened |-> opened, need_confirmation |-> TRUE, ticket_id |-> NoTicket,
     interaction_id |-> NoIid]

\* A server having started, with the index and the chunker at rest.
InitChat == KBAtRest /\ ChunkerIdle /\ WebIdle /\ DocsDirIdle

\* POST /chat, app.py lines 202-254, with call_self_help (orchestrator.py
\* lines 42-50) and open_ticket (lines 52-64); HubSpot creates the ticket or
\* _run raises (no token, no pipeline id, API error).
Chat ==
    /\ issued < MaxInteractions
    /\ \E raw \in AgentOutcomes, hubspot \in {"created", "error"} :
         LET iid == issued + 1
             help == NormalizeHelpResult(raw)
             result == NormalizeResult(help)
         IN /\ issued' = iid
            /\ IF raw = Raised \/ help.kind = "ValueError"
               THEN /\ last' = ServerError("chat", iid, NoResult, FALSE)
                    /\ UNCHANGED <<PENDING, tickets>>
               ELSE /\ PENDING' = [PENDING EXCEPT ![iid] = result]
                    /\ IF SolidAnswer(result)
                       THEN /\ last' =
                                 [endpoint |-> "chat", status |-> 200, iid |-> iid,
                                  result |-> result, opened |-> FALSE,
                                  need_confirmation |-> FALSE,
                                  ticket_id |-> NoTicket, interaction_id |-> iid]
                            /\ UNCHANGED tickets
                       ELSE IF hubspot = "created"
                       THEN /\ tickets' = Append(tickets, iid)
                            /\ last' =
                                 [endpoint |-> "chat", status |-> 200, iid |-> iid,
                                  result |-> result, opened |-> TRUE,
                                  need_confirmation |-> TRUE,
                                  ticket_id |-> Len(tickets) + 1,
                                  interaction_id |-> iid]
                       ELSE /\ last' = ServerError("chat", iid, result, TRUE)
                            /\ UNCHANGED tickets
    /\ UNCHANGED confirmed
    /\ UNCHANGED <<kb, chunker, docsDir>>

\* A lookup that leaves the entry in the store.
PopKeeps(pending, iid) == pending

\* app.py line 258, PENDING.pop(request.interaction_id, None): the store
\* without the entry of the id.
Pop(pending, iid) == [pending EXCEPT ![iid] = NoResult]

\* POST /chat/confirm, app.py lines 256-287, for any interaction id.
Confirm ==
    /\ \E iid \in 1..MaxInteractions, helpful \in BOOLEAN,
          hubspot \in {"created", "error"} :
         IF PENDING[iid] = NoResult
         THEN /\ last' =
                   [endpoint |-> "confirm", status |-> 404, iid |-> iid,
                    result |-> NoResult, opened |-> FALSE,
                    need_confirmation |-> FALSE, ticket_id |-> NoTicket,
                    interaction_id |-> NoIid]
              /\ UNCHANGED <<PENDING, tickets, confirmed>>
         ELSE /\ PENDING' = Pop(PENDING, iid)
              /\ confirmed' = confirmed \union {iid}
              /\ IF helpful
                 THEN /\ last' =
                           [endpoint |-> "confirm", status |-> 200, iid |-> iid,
                            result |-> PENDING[iid], opened |-> FALSE,
                            need_confirmation |-> FALSE, ticket_id |-> NoTicket,
                            interaction_id |-> iid]
                      /\ UNCHANGED tickets
                 ELSE IF hubspot = "created"
                 THEN /\ tickets' = Append(tickets, iid)
                      /\ last' =
                           [endpoint |-> "confirm", status |-> 200, iid |-> iid,
                            result |-> PENDING[iid], opened |-> TRUE,
                            need_confirmation |-> FALSE,
                            ticket_id |-> Len(tickets) + 1,
                            interaction_id |-> iid]
                 ELSE /\ last' = ServerError("confirm", iid, PENDING[iid], TRUE)
                      /\ UNCHANGED tickets
    /\ UNCHANGED issued
    /\ UNCHANGED <<kb, chunker, docsDir>>

NextChat == Chat \/ Confirm

SpecChat == InitChat /\ [][NextChat]_vars

\* ------------------------------------------------- the document tree
\* A file of the tree is known by its position in tree, which stands for its
\* path; the model keeps the files in one directory, for which os.walk
\* promises no order of the names. A file's content has the format its
\* extension names; readable says that the content is well formed and that
\* the process may open it.
Exts == {".pdf", ".PDF", ".docx", ".txt", ".md", ""}

Stats == 1..MaxStat

\* fn.lower(), line 159, on the end of the name.
Lower(ext) == IF ext = ".PDF" THEN ".pdf" ELSE ext

\* The page texts of a PDF document of the model (the second page is
\* blank), and the body of any other one; each is shorter than a chunk.
PdfPages == <<"first page", "", "third page">>

Body == "body"

\* What a call gives the try block of lines 160-166: it raised, or the
\* chunks it returned.
Failed == [raised |-> TRUE, chunks |-> <<>>]

Returned(cs) == [raised |-> FALSE, chunks |-> cs]

\* KBChunk(text, source, page, sha) with sha = sha1(fpath + page + text),
\* lines 180-181, 189-190 and 199-200.
FileChunk(fpath, page, text) ==
    [text |-> text, source |-> fpath, page |-> page,
     sha |-> <<"sha1", fpath, page, text>>]

\* _pdf_chunks, lines 174-181: the pages from page i on, numbered from 1, a
\* page without text skipped.
RECURSIVE PdfPageChunks(_, _)
PdfPageChunks(fpath, i) ==
    IF i > Len(PdfPages) THEN <<>>
    ELSE (IF PdfPages[i] = "" THEN <<>>
          ELSE <<FileChunk(fpath, i, PdfPages[i])>>)
         \o PdfPageChunks(fpath, i + 1)

\* _pdf_chunks, lines 172-181: PdfReader(fpath) raises on a file that is not
\* a well-formed PDF document, whatever its name.
PdfChunks(fpath, f) ==
    IF Lower(f.ext) = ".pdf" /\ f.readable
    THEN Returned(PdfPageChunks(fpath, 1))
    ELSE Failed

\* _text_chunks, lines 193-200: io.open raises on a file the process may not
\* open; bytes that are not UTF-8 are ignored.
TextChunks(fpath, f) ==
    IF f.readable THEN Returned(<<FileChunk(fpath, NoPage, Body)>>) ELSE Failed

\* line 165, ext in (".txt"): the parentheses make no tuple, so this is
\* Python's substring test on the string ".txt"; of the values splitext can
\* give, these pass it.
InTxt(ext) == ext \in {"", ".", ".t", ".tx", ".txt"}

\* The dispatch of lines 159-166 for one file.
Extract(fpath, f) ==
    LET ext == Lower(f.ext)
    IN  IF ext = ".pdf" THEN PdfChunks(fpath, f)
        ELSE IF ext = ".docx" THEN PdfChunks(fpath, f)
        ELSE IF InTxt(ext) THEN TextChunks(fpath, f)
        ELSE Returned(<<>>)

\* An error of one file discards the chunks gathered so far.
ExtendLosing(cs, r) == IF r.raised THEN <<>> ELSE cs \o r.chunks

\* lines 160-168: chunks.extend(...) when the call returns; an exception is
\* printed and the loop goes on.
Extend(cs, r) == IF r.raised THEN cs ELSE cs \o r.chunks

\* The orders in which os.walk can give n names.
Orders(n) == {o \in [1..n -> 1..n] : \A i, j \in 1..n : o[i] = o[j] => i = j}

\* _docs_digest, lines 203-216: line 210 calls os.stats, which the os module
\* does not have, so the first file raises AttributeError (the except clause
\* catches FileNotFoundError only); a tree without files gives sha1("").
DocsDigestOfTree(t) ==
    IF t = <<>> THEN [status |-> "ok", value |-> <<"sha1", <<>>>>]
    ELSE [status |-> "AttributeError", value |-> NoDigest]

\* The shas of the metadata reindex() writes for the chunks (lines 99-104).
ShasOf(cs) == [i \in DOMAIN cs |-> MetaOf(cs)[i].sha]

\* A scan is about to be made of any tree within the bounds; every file has
\* the same size and time, which the scan does not read.
InitDocs ==
    /\ KBAtRest
    /\ ChunkerIdle
    /\ WebIdle
    /\ tree \in UNION {[1..n -> [ext : Exts, readable : BOOLEAN,
                                  size : {1}, mtime : {1}]] : n \in 0..MaxFiles}
    /\ outside = 0
    /\ filenames = <<>>
    /\ position = 0
    /\ allChunks = <<>>
    /\ lpc = "idle"
    /\ scans = <<>>
    /\ digests = <<>>
    /\ gap = "none"
    /\ since = "none"

\* lines 155-156: chunks = [], and os.walk gives the names in some order. Of
\* the scans made before, the last one is remembered.
LoadAllChunksCall ==
    /\ lpc = "idle"
    /\ lpc' = "walk"
    /\ filenames' \in Orders(Len(tree))
    /\ position' = 0
    /\ allChunks' = <<>>
    /\ scans' = IF scans = <<>> THEN <<>> ELSE <<scans[Len(scans)]>>
    /\ UNCHANGED <<tree, outside, digests, gap, since>>
    /\ UNCHANGED <<kb, chunker, web>>

\* lines 157-168: one turn of the loop.
LoadAllChunksFile ==
    /\ lpc = "walk"
    /\ position < Len(filenames)
    /\ LET fpath == filenames[position + 1]
       IN  allChunks' = Extend(allChunks, Extract(fpath, tree[fpath]))
    /\ position' = position + 1
    /\ UNCHANGED <<tree, outside, filenames, lpc, scans, digests, gap, since>>
    /\ UNCHANGED <<kb, chunker, web>>

\* line 169: return chunks. The scan is recorded with the digest of the tree
\* it was made of.
LoadAllChunksReturn ==
    /\ lpc = "walk"
    /\ position = Len(filenames)
    /\ lpc' = "idle"
    /\ scans' = Append(scans, [order |-> filenames, chunks |-> allChunks,
                               digest |-> DocsDigestOfTree(tree)])
    /\ UNCHANGED <<tree, outside, filenames, position, allChunks, digests,
                   gap, since>>
    /\ UNCHANGED <<kb, chunker, web>>

NextDocs == LoadAllChunksCall \/ LoadAllChunksFile \/ LoadAllChunksReturn

SpecDocs == InitDocs /\ [][NextDocs]_vars

\* A digest is about to be taken of any tree of text files within the
\* bounds.
InitDigest ==
    /\ KBAtRest
    /\ ChunkerIdle
    /\ WebIdle
    /\ tree \in UNION {[1..n -> [ext : {".txt"}, readable : {TRUE},
                                  size : Stats, mtime : Stats]] : n \in 0..MaxFiles}
    /\ outside = 0
    /\ filenames = <<>>
    /\ position = 0
    /\ allChunks = <<>>
    /\ lpc = "idle"
    /\ scans = <<>>
    /\ digests = <<>>
    /\ gap = "none"
    /\ since = "none"

\* What has changed once a file under (inside = TRUE) or outside DOCS_DIR
\* has.
Changed(was, inside) ==
    IF was = "none" THEN (IF inside THEN "inside" ELSE "outside")
    ELSE IF was = (IF inside THEN "inside" ELSE "outside") THEN was
    ELSE "both"

\* _docs_digest(DOCS_DIR) is called and returns or raises.
DocsDigestCall ==
    /\ digests' = (IF digests = <<>> THEN <<>> ELSE <<digests[Len(digests)]>>)
                  \o <<DocsDigestOfTree(tree)>>
    /\ gap' = since
    /\ since' = "none"
    /\ UNCHANGED <<tree, outside, filenames, position, allChunks, lpc, scans>>
    /\ UNCHANGED <<kb, chunker, web>>

\* A file under DOCS_DIR is written to: it grows, or its modification time
\* moves on, so a file once changed stays different from what it was.
ChangeFile ==
    /\ \E i \in DOMAIN tree, n \in Stats :
         \/ /\ n > tree[i].size
            /\ tree' = [tree EXCEPT ![i].size = n]
         \/ /\ n > tree[i].mtime
            /\ tree' = [tree EXCEPT ![i].mtime = n]
    /\ since' = Changed(since, TRUE)
    /\ UNCHANGED <<outside, filenames, position, allChunks, lpc, scans,
                   digests, gap>>
    /\ UNCHANGED <<kb, chunker, web>>

\* A file outside DOCS_DIR is added or modified.
ChangeOutside ==
    /\ outside' = (outside + 1) % 2
    /\ since' = Changed(since, FALSE)
    /\ UNCHANGED <<tree, filenames, position, allChunks, lpc, scans, digests,
                   gap>>
    /\ UNCHANGED <<kb, chunker, web>>

NextDigest == DocsDigestCall \/ ChangeFile \/ ChangeOutside

SpecDigest == InitDigest /\ [][NextDigest]_vars

\* ============================================================== properties
Empty == [vectors |-> None, meta |-> <<>>]

Memory == [vectors |-> vectors, meta |-> meta]

\* Row i of the matrix is the embedding of metadata record i, and the matrix
\* is None exactly when the metadata list is empty.
Aligned(v, m) ==
    /\ (v = None) <=> (Len(m) = 0)
    /\ v # None =>
         /\ Len(v.rows) = Len(m)
         /\ \A i \in DOMAIN m : v.rows[i] = AsType(ProviderEmbedding(m[i].text))

\* The index the running reindex is building.
NewIndex ==
    IF chunks = <<>> THEN Empty
    ELSE [vectors |-> Array(EmbedBatch(chunks)), meta |-> MetaOf(chunks)]

\* The two statements of _load together compute LoadResult.
LoadAgreesWithLoadResult ==
    (ret.op = "load" /\ ret.status = "ok") => Memory = LoadResult(fVec, fMeta)

\* C1: whenever no load, reindex or save is running (all have completed or
\* failed), the matrix and the metadata list are aligned.
C1_MemoryAligned == pc = "idle" => Aligned(vectors, meta)

\* C2: while reindex runs, a reader of the in-memory index finds the complete
\* index from before the call or the complete new one.
C2_ReaderSeesOldOrNew ==
    op = "reindex" =>
        Memory \in {[vectors |-> pre.vectors, meta |-> pre.meta], NewIndex}

\* C3: at every step inside save(), the artifacts on disk are such that a
\* load (after a stop of the process at that step) yields the index persisted
\* before the call or the index being saved.
C3_SaveIsAtomic ==
    pc \in {"save_vec", "save_vec_write", "save_meta"} =>
        LoadResult(fVec, fMeta) \in {LoadResult(pre.fVec, pre.fMeta), Memory}

\* C4: when the embedding provider fails on a batch, reindex ends with the
\* error and the index in memory and the three artifacts are as at the call.
C4_EmbedFailureLeavesIndex ==
    ret.status = "EmbeddingError" =>
        /\ ret.op = "reindex"
        /\ vectors = pre.vectors
        /\ meta = pre.meta
        /\ fVec = pre.fVec
        /\ fMeta = pre.fMeta
        /\ fDigest = pre.fDigest

\* C4 witness: a reindex over a non-empty index in memory and on disk has
\* failed on a batch after the first.
C4_Witness ==
    /\ ret.op = "reindex"
    /\ ret.status = "EmbeddingError"
    /\ ret.rows >= 1
    /\ vectors # None
    /\ IsMatrix(fVec)

\* C5: search on an index whose matrix is None or whose metadata is empty
\* returns the empty list (and no exception), for every query and k.
C5_SearchEmptyIndex ==
    (sres.value # NoCall /\ (vectors = None \/ Len(meta) = 0)) =>
        sres.value = List(<<>>)

\* C5 witness: search has returned [] right after a reindex of an empty
\* document root that cleared a non-empty index.
C5_Witness ==
    /\ sres.value = List(<<>>)
    /\ sres.k >= 1
    /\ ret.op = "reindex"
    /\ ret.n = 0
    /\ pc = "idle"
    /\ pre.vectors # None

\* C6: on a non-empty index search returns a list of at most k results, with
\* scores in non-increasing order and equal scores in index order.
C6_SearchSorted ==
    (sres.value # NoCall /\ vectors # None /\ Len(meta) > 0) =>
        LET r == sres.value.rows
        IN /\ sres.value.kind = "list"
           /\ Len(r) <= sres.k
           /\ \A i, j \in DOMAIN r :
                i < j => /\ ~SimLess(r[i].score, r[j].score)
                         /\ r[i].score = r[j].score => r[i].index < r[j].index

\* C7: on a non-empty index of N chunks and k >= 1 search returns min(k, N)
\* results, and no chunk left out is strictly more similar to the query than
\* a returned one.
C7_SearchTopK ==
    (sres.value # NoCall /\ vectors # None /\ Len(meta) > 0 /\ sres.k >= 1) =>
        LET r == sres.value.rows
            sims == CosineSim(vectors.rows, AsType(ProviderEmbedding(sres.q)))
            got == {r[i].index : i \in DOMAIN r}
        IN /\ sres.value.kind = "list"
           /\ Len(r) = Min(sres.k, Len(meta))
           /\ \A i \in got, j \in DOMAIN sims \ got : ~SimLess(sims[i], sims[j])

\* C8: reindex of a root without chunks returns (0, 0) and leaves the index
\* empty in memory and for a following load; reindex of a root of n >= 1
\* chunks (embedded without error) returns (n, d).
C8_ReindexReturns ==
    (ret.op = "reindex" /\ ret.status \notin {"EmbeddingError", "stopped"}) =>
        IF ret.n = 0
        THEN /\ ret.status = "ok"
             /\ ret.value = <<0, 0>>
             /\ Memory = Empty
             /\ LoadResult(fVec, fMeta) = Empty
        ELSE /\ ret.status = "ok"
             /\ ret.value = <<ret.n, Len(vectors.rows[1])>>

\* C9: save() ends without error and a following load() yields the index that
\* was in memory, same vectors and same metadata records in the same order.
C9_SaveLoadRoundTrip ==
    (ret.op = "save" /\ ret.status # "stopped") =>
        /\ ret.status = "ok"
        /\ LoadResult(fVec, fMeta) = Memory

\* C10: load() ends without error, and when an artifact is missing or
\* unreadable or the two hold different numbers of entries the store is empty.
C10_LoadChecksArtifacts ==
    (ret.op = "load" /\ ret.status # "stopped") =>
        /\ ret.status = "ok"
        /\ (\/ ~IsMatrix(pre.fVec)
            \/ pre.fMeta.kind # "list"
            \/ Len(pre.fVec.rows) # Len(pre.fMeta.rows)) => Memory = Empty

\* The index a build over the document root of the call produces.
BuiltIndex ==
    [vectors |-> MatrixOf(pre.docs), meta |-> MetaOf(LoadAllChunks(pre.docs))]

\* C11: when the write to disk fails inside reindex, the error reaches the
\* caller of reindex, the index in memory is the newly built one, aligned, and
\* search returns a list of results on it for every query and k.
C11_SaveFailureKeepsUsableIndex ==
    (ret.op = "reindex" /\ ret.status \in {"OSError", "TypeError"}) =>
        /\ Memory = BuiltIndex
        /\ Aligned(vectors, meta)
        /\ \A q \in Texts, k \in Ks :
             SearchResult(vectors, meta, q, k).kind = "list"

\* ------------------------------------------------ properties of __init__
\* The calls a construction that has ended made.
Made(call) == \E i \in DOMAIN ret.value : ret.value[i] = call

\* A construction has ended, returning or raising.
Constructed == ret.op = "init" /\ ret.status # "stopped"

\* The index load() produces from the artifacts found by the construction.
Loaded == LoadResult(pre.fVec, pre.fMeta)

\* The test of line 49, negated.
HasIndex(ix) == ix.vectors # None /\ Len(ix.meta) > 0

\* C12: a construction runs load(), and when the current digest is computed
\* it runs a reindex exactly when the loaded index is empty or a saved digest
\* is present and differs from the current one.
C12_ReindexDecision ==
    (Constructed /\ DocsDigest(pre.docs) # NoDigest) =>
        /\ Made("load")
        /\ Made("reindex") <=>
              \/ ~HasIndex(Loaded)
              \/ pre.fDigest # NoDigest /\ pre.fDigest # DocsDigest(pre.docs)

\* C13: a construction whose digest computation fails attempts no reindex,
\* keeps the index load() produced and writes no digest.
C13_DigestFailureKeepsIndex ==
    (Constructed /\ DocsDigest(pre.docs) = NoDigest) =>
        /\ ~Made("reindex")
        /\ Memory = Loaded
        /\ fDigest = pre.fDigest

\* C14: when an explicit reindex ends without a failure of the embedding
\* provider or of the disk, it has returned and docs_digest.txt holds the
\* digest of the tree it indexed.
C14_ReindexPersistsDigest ==
    (ret.op = "reindex" /\ ret.status \notin {"EmbeddingError", "OSError", "stopped"}) =>
        /\ ret.status = "ok"
        /\ fDigest = DigestOf(pre.docs)

\* The lifecycle states a construction starts in.
ColdStart == ~HasIndex(Loaded)

Stale ==
    /\ HasIndex(Loaded)
    /\ pre.fDigest # NoDigest
    /\ pre.fDigest # DigestOf(pre.docs)

\* C15: a construction that starts in ColdStart or Stale over a root with at
\* least one chunk, the provider and the disk working, ends with a non-empty
\* index in memory, the same index persisted, and the current digest
\* persisted.
C15_ConstructionEndsUpToDate ==
    (/\ Constructed
     /\ ret.status \notin {"EmbeddingError", "OSError"}
     /\ pre.docs # <<>>
     /\ ColdStart \/ Stale) =>
        /\ HasIndex(Memory)
        /\ LoadResult(fVec, fMeta) = Memory
        /\ fDigest = DigestOf(pre.docs)

\* C18: a construction that loads a non-empty index, computes the current
\* digest and finds no saved digest writes the digest and changes nothing
\* else: no reindex, memory as load() produced it, index files untouched.
C18_FirstRunWritesDigest ==
    (/\ Constructed
     /\ HasIndex(Loaded)
     /\ DocsDigest(pre.docs) # NoDigest
     /\ pre.fDigest = NoDigest) =>
        /\ fDigest = DocsDigest(pre.docs)
        /\ ~Made("reindex")
        /\ Memory = Loaded
        /\ fVec = pre.fVec
        /\ fMeta = pre.fMeta

\* C16: a step in which search() returns leaves the matrix and the metadata
\* in memory and the three artifacts as they were, and starts or advances no
\* load, reindex or save (every other step clears sres).
C16_SearchIsPureRead ==
    [][sres'.value # NoCall =>
         UNCHANGED <<vectors, meta, fVec, fMeta, fDigest, pc, op, chunks, out>>]_vars

\* C16 witness: search has returned on a non-empty index in memory while
\* both index files exist.
C16_Witness ==
    /\ sres.value # NoCall
    /\ HasIndex(Memory)
    /\ IsMatrix(fVec)
    /\ fMeta.kind = "list"

\* C19: when _embed_texts returns for n >= 1 texts, its result holds exactly
\* n vectors, the i-th the provider's vector for the i-th text (all of one
\* dimension); a pass in which a response held fewer or more vectors than its
\* batch does not return.
C19_EmbedReturnsOnePerText ==
    pc = "set_vec" =>
        /\ Len(VStack(out)) = Len(chunks)
        /\ \A i \in DOMAIN chunks :
             VStack(out)[i] = AsType(ProviderEmbedding(chunks[i].text))
        /\ \A i, j \in DOMAIN VStack(out) :
             Len(VStack(out)[i]) = Len(VStack(out)[j])

\* -------------------------------------------- properties of _chunk_text
\* The token positions of toks a window holds.
Positions(w) == (w.start + 1)..(w.start + Len(w.window))

\* The number of tokens two windows share.
Shared(a, b) == Cardinality(Positions(a) \cap Positions(b))

\* C20 as stated: with 0 <= O < T every window of the returned list has at
\* most T tokens and every two consecutive windows share exactly O tokens,
\* unless the later one is the final window, and then at most O.
C20_OverlapExceptFinal ==
    (cpc = "done" /\ CHUNK_OVERLAP_TOKENS < CHUNK_TOKENS) =>
        /\ \A j \in DOMAIN textChunks : Len(textChunks[j].window) <= CHUNK_TOKENS
        /\ \A j \in 1..(Len(textChunks) - 1) :
             IF j + 1 < Len(textChunks)
             THEN Shared(textChunks[j], textChunks[j + 1]) = CHUNK_OVERLAP_TOKENS
             ELSE Shared(textChunks[j], textChunks[j + 1]) <= CHUNK_OVERLAP_TOKENS

\* C20 amended: with 0 <= O < T every window has at most T tokens; two
\* consecutive windows share exactly O tokens when the earlier one holds T
\* tokens, and when the earlier one is cut short by the end of the text they
\* share the whole later window, fewer than O tokens.
C20_OverlapOfFullWindows ==
    (cpc = "done" /\ CHUNK_OVERLAP_TOKENS < CHUNK_TOKENS) =>
        /\ \A j \in DOMAIN textChunks : Len(textChunks[j].window) <= CHUNK_TOKENS
        /\ \A j \in 1..(Len(textChunks) - 1) :
             IF Len(textChunks[j].window) = CHUNK_TOKENS
             THEN Shared(textChunks[j], textChunks[j + 1]) = CHUNK_OVERLAP_TOKENS
             ELSE /\ Shared(textChunks[j], textChunks[j + 1])
                       = Len(textChunks[j + 1].window)
                  /\ Shared(textChunks[j], textChunks[j + 1]) < CHUNK_OVERLAP_TOKENS

\* C20 witness: _chunk_text has returned, with O < T, a list in which a
\* window cut short by the end of the text is followed by two more windows.
C20_Witness ==
    /\ cpc = "done"
    /\ CHUNK_OVERLAP_TOKENS < CHUNK_TOKENS
    /\ CHUNK_OVERLAP_TOKENS > 0
    /\ \E j \in DOMAIN textChunks :
         /\ j + 2 <= Len(textChunks)
         /\ Len(textChunks[j].window) < CHUNK_TOKENS

\* ------------------------------------------------------ properties of /chat
\* A /chat call has been handled up to its normalized self-help result.
ChatHandled == last.endpoint = "chat" /\ last.result # NoResult

Stride ==
    IF CHUNK_TOKENS - CHUNK_OVERLAP_TOKENS >= 1
    THEN CHUNK_TOKENS - CHUNK_OVERLAP_TOKENS ELSE 1

\* C21: for a text of N tokens _chunk_text returns exactly ceil(N / S)
\* windows, the j-th (from 0) starting at offset j * S and holding the
\* min(T, N - j * S) tokens from there; none is empty, and N = 0 gives none.
C21_WindowCountAndOffsets ==
    cpc = "done" =>
        /\ Len(textChunks) = (Len(toks) + Stride - 1) \div Stride
        /\ \A j \in DOMAIN textChunks :
             /\ textChunks[j].start = (j - 1) * Stride
             /\ Len(textChunks[j].window)
                  = Min(CHUNK_TOKENS, Len(toks) - (j - 1) * Stride)
             /\ Len(textChunks[j].window) > 0
             /\ \A p \in DOMAIN textChunks[j].window :
                  textChunks[j].window[p] = toks[(j - 1) * Stride + p]

\* C21 witness: three windows at offsets 0, S, 2S with S >= 2 and O >= 1, the
\* last one shorter than T (the shape of 1000 tokens with T = 500, O = 60).
C21_Witness ==
    /\ cpc = "done"
    /\ Len(textChunks) = 3
    /\ Stride >= 2
    /\ CHUNK_OVERLAP_TOKENS >= 1
    /\ Len(textChunks[3].window) < CHUNK_TOKENS
    /\ Len(textChunks[2].window) = CHUNK_TOKENS

\* C28: for N >= 1 tokens and any T >= 1, O >= 0 the returned windows are in
\* ascending order of offset and every token position 0..N-1 lies in one of
\* them, with the token of the text at that position.
C28_WindowsCoverText ==
    (cpc = "done" /\ Len(toks) >= 1) =>
        /\ \A j, k \in DOMAIN textChunks :
             j < k => textChunks[j].start < textChunks[k].start
        /\ \A p \in DOMAIN toks :
             \E j \in DOMAIN textChunks :
                /\ p \in Positions(textChunks[j])
                /\ textChunks[j].window[p - textChunks[j].start] = toks[p]

\* C28 witness: a text of several tokens chunked with O >= T.
C28_Witness ==
    /\ cpc = "done"
    /\ CHUNK_OVERLAP_TOKENS >= CHUNK_TOKENS
    /\ CHUNK_TOKENS >= 2
    /\ Len(toks) > CHUNK_TOKENS
    /\ Len(textChunks) = Len(toks)

\* C27: a batch whose embedding call fails is called again, so a reindex
\* that aborts on the provider has made at least two calls for the batch it
\* aborts on.
C27_BatchRetried ==
    (ret.op = "reindex" /\ ret.status = "EmbeddingError") => ret.value[1] >= 2

\* C30: a construction never raises, whatever load(), the digest, the
\* provider or the disk do, and the object it leaves answers search() with
\* a list for every query and k.
C30_ConstructionNeverRaises ==
    Constructed =>
        /\ ret.status = "ok"
        /\ \A q \in Texts, k \in Ks :
             SearchResult(vectors, meta, q, k).kind = "list"

\* The scans recorded.
Scans == {scans[i] : i \in DOMAIN scans}

\* The chunks of those of the first n files of an order that extract
\* without error, in that order.
RECURSIVE SuccessfulChunks(_, _)
SuccessfulChunks(order, n) ==
    IF n = 0 THEN <<>>
    ELSE LET r == Extract(order[n], tree[order[n]])
         IN  SuccessfulChunks(order, n - 1)
                 \o (IF r.raised THEN <<>> ELSE r.chunks)

\* C24: an error in the extraction of one file stops nothing: the loop
\* holds the chunks of the files handled so far that extracted without
\* error, in traversal order, and the scan returns those of the whole tree,
\* every file visited.
C24_ExtractionErrorContained ==
    /\ lpc = "walk" => allChunks = SuccessfulChunks(filenames, position)
    /\ \A s \in Scans :
         /\ Len(s.order) = Len(tree)
         /\ s.chunks = SuccessfulChunks(s.order, Len(tree))

\* A scan returned in which a file that raised was followed by one that
\* gave chunks.
C24_Witness ==
    /\ lpc = "idle"
    /\ \E s \in Scans : \E i, j \in DOMAIN s.order :
         /\ i < j
         /\ Extract(s.order[i], tree[s.order[i]]).raised
         /\ \E c \in DOMAIN s.chunks : s.chunks[c].source = s.order[j]

\* C25: every chunk a scan returns comes from a file whose lower-cased
\* extension is exactly .pdf, .docx or .txt.
C25_OnlyKnownExtensions ==
    \A s \in Scans : \A c \in DOMAIN s.chunks :
        Lower(tree[s.chunks[c].source].ext) \in {".pdf", ".docx", ".txt"}

\* C26: a readable .docx file contributes chunks to a scan, each of them
\* with page = None.
C26_DocxContributes ==
    \A s \in Scans : \A f \in DOMAIN tree :
        (Lower(tree[f].ext) = ".docx" /\ tree[f].readable) =>
            /\ \E c \in DOMAIN s.chunks : s.chunks[c].source = f
            /\ \A c \in DOMAIN s.chunks :
                 s.chunks[c].source = f => s.chunks[c].page = NoPage

\* C22: two scans of an unchanged tree give the same digest and the same
\* sequence of shas, in whatever orders the walk gave the files.
C22_ScanOrderIndependent ==
    Len(scans) = 2 =>
        /\ scans[1].digest = scans[2].digest
        /\ ShasOf(scans[1].chunks) = ShasOf(scans[2].chunks)

\* C23: of two digests taken one after the other, the second differs from
\* the first when a file under the root changed in between, and equals it
\* when only files outside the root did.
C23_DigestFollowsFiles ==
    Len(digests) = 2 =>
        /\ gap \in {"inside", "both"} =>
             /\ digests[1].status = "ok"
             /\ digests[2].status = "ok"
             /\ digests[1].value # digests[2].value
        /\ gap = "outside" => digests[1] = digests[2]

\* ------------------------------------------- properties of /chat/confirm
\* The step is the handling of a /chat/confirm request (a /chat request
\* draws an interaction id).
ConfirmStep == issued' = issued /\ last'.endpoint = "confirm"

\* C32: a /chat/confirm for an id that a /chat/confirm has found before, or
\* that names no stored interaction, is answered 404 and asks HubSpot for no
\* ticket; the first one for a stored id removes it from the pending store
\* and is not answered 404.
C32_ConfirmedAtMostOnce ==
    [][ConfirmStep =>
          LET iid == last'.iid
          IN  /\ (iid \in confirmed \/ PENDING[iid] = NoResult) =>
                    /\ last'.status = 404
                    /\ ~last'.opened
                    /\ tickets' = tickets
              /\ (iid \notin confirmed /\ PENDING[iid] # NoResult) =>
                    /\ last'.status # 404
                    /\ PENDING'[iid] = NoResult]_vars

\* C32 witness: an id confirmed once has been confirmed again and answered
\* 404, the ticket of the first confirmation being the only one.
C32_Witness ==
    /\ last.endpoint = "confirm"
    /\ last.status = 404
    /\ last.iid \in confirmed
    /\ tickets = <<last.iid>>

\* C33: no interaction has more than one HubSpot ticket.
C33_OneTicketPerInteraction ==
    \A i \in 1..MaxInteractions :
        Cardinality({t \in DOMAIN tickets : tickets[t] = i}) <= 1

====
